---------------------------- MODULE Spec2Model ----------------------------
(***************************************************************************)
(* Student-record manager (crud-alunos): the store's schema, row-level     *)
(* security policies and triggers (the SQL migration), the form handler    *)
(* of AlunoForm.tsx and the list/delete handlers of Dashboard.tsx.         *)
(*                                                                         *)
(* Text values are sequences of one-character strings, so that trim,       *)
(* length, the e-mail pattern and parseInt are computed, not assumed.      *)
(***************************************************************************)
EXTENDS Integers, Sequences, FiniteSets, TLC

(***************************************************************************)
(* Bounds of the model.                                                    *)
(***************************************************************************)
MaxRows == 2
MaxTime == 1
MaxFetches == 2

(***************************************************************************)
(* Program constants.                                                      *)
(***************************************************************************)
NomeMin == 2
NomeMax == 100
EmailMax == 255
MatriculaMin == 3
MatriculaMax == 50
IdadeMin == 1
IdadeMax == 150
CheckIdadeLow == 0
CheckIdadeHigh == 150

\* no identity (auth.uid() is NULL, getUser() gives no user)
None == "none"
\* the value of parseInt when the text starts with no digit; a number n is <<n>>
NaN == <<>>

(***************************************************************************)
(* Text helpers.                                                           *)
(***************************************************************************)
Rep(c, n) == [i \in 1..n |-> c]

SetMin(S) == CHOOSE x \in S : \A y \in S : x <= y
SetMax(S) == CHOOSE x \in S : \A y \in S : x >= y

Letters == {"a", "e"}
Digits == {"0", "1", "2", "3", "4", "5", "6", "7", "8", "9"}
AlNum == Letters \cup Digits

RECURSIVE TrimStart(_)
TrimStart(s) == IF s # <<>> /\ Head(s) = " " THEN TrimStart(Tail(s)) ELSE s

RECURSIVE TrimEnd(_)
TrimEnd(s) ==
  IF s # <<>> /\ s[Len(s)] = " " THEN TrimEnd(SubSeq(s, 1, Len(s) - 1)) ELSE s

\* String.prototype.trim as zod's .trim() applies it
Trim(s) == TrimEnd(TrimStart(s))

DigitVal(c) ==
  CASE c = "0" -> 0 [] c = "1" -> 1 [] c = "2" -> 2 [] c = "3" -> 3
    [] c = "4" -> 4 [] c = "5" -> 5 [] c = "6" -> 6 [] c = "7" -> 7
    [] c = "8" -> 8 [] c = "9" -> 9

RECURSIVE DigitsValue(_)
DigitsValue(s) ==
  IF s = <<>> THEN 0
  ELSE 10 * DigitsValue(SubSeq(s, 1, Len(s) - 1)) + DigitVal(s[Len(s)])

\* the longest prefix of s made of digits
DigitPrefix(s) ==
  LET stop == {i \in 1..Len(s) : s[i] \notin Digits}
  IN IF stop = {} THEN s ELSE SubSeq(s, 1, SetMin(stop) - 1)

\* JavaScript parseInt(text): leading white space is skipped, an optional
\* sign is read, then digits up to the first character that is not one;
\* no digit at all gives NaN.
ParseInt(text) ==
  LET s == TrimStart(text)
      neg == s # <<>> /\ s[1] = "-"
      body == IF s # <<>> /\ s[1] \in {"-", "+"} THEN Tail(s) ELSE s
      ds == DigitPrefix(body)
  IN IF ds = <<>> THEN NaN
     ELSE IF neg THEN <<0 - DigitsValue(ds)>> ELSE <<DigitsValue(ds)>>

\* zod's e-mail pattern
\*   ^(?!\.)(?!.*\.\.)([A-Z0-9_'+\-\.]*)[A-Z0-9_+-]@([A-Z0-9][A-Z0-9\-]*\.)+[A-Z]{2,}$
\* over the characters of the model
IsEmail(s) ==
  LET ats == {i \in 1..Len(s) : s[i] = "@"}
  IN /\ Cardinality(ats) = 1
     /\ LET at == SetMin(ats)
            local == SubSeq(s, 1, at - 1)
            dom == SubSeq(s, at + 1, Len(s))
            dots == {i \in 1..Len(dom) : dom[i] = "."}
        IN /\ local # <<>>
           /\ s[1] # "."
           /\ \A i \in 1..(Len(s) - 1) : ~(s[i] = "." /\ s[i + 1] = ".")
           /\ \A i \in 1..Len(local) : local[i] \in AlNum \cup {"-", "."}
           /\ local[Len(local)] \in AlNum \cup {"-"}
           /\ dots # {}
           /\ LET p == SetMax(dots)
              IN /\ Len(dom) - p >= 2
                 /\ \A i \in (p + 1)..Len(dom) : dom[i] \in Letters
                 /\ \A i \in 1..p :
                      IF i = 1 \/ dom[i - 1] = "."
                      THEN dom[i] \in AlNum
                      ELSE dom[i] \in AlNum \cup {"-", "."}

(***************************************************************************)
(* alunoSchema: the issues zod reports, in the order it reports them.      *)
(***************************************************************************)
MsgNomeMin == "Nome deve ter no minimo 2 caracteres"
MsgNomeMax == "String must contain at most 100 character(s)"
MsgEmail == "Email invalido"
MsgEmailMax == "String must contain at most 255 character(s)"
MsgMatriculaMin == "Matricula deve ter no minimo 3 caracteres"
MsgMatriculaMax == "String must contain at most 50 character(s)"
MsgIdadeType == "Expected number, received nan"
MsgIdadeMin == "Idade deve ser maior que 0"
MsgIdadeMax == "Idade invalida"

When(c, m) == IF c THEN <<m>> ELSE <<>>

NomeIssues(raw) ==
  LET v == Trim(raw)
  IN When(Len(v) < NomeMin, MsgNomeMin) \o When(Len(v) > NomeMax, MsgNomeMax)

EmailIssues(raw) ==
  LET v == Trim(raw)
  IN When(~IsEmail(v), MsgEmail) \o When(Len(v) > EmailMax, MsgEmailMax)

MatriculaIssues(raw) ==
  LET v == Trim(raw)
  IN When(Len(v) < MatriculaMin, MsgMatriculaMin)
       \o When(Len(v) > MatriculaMax, MsgMatriculaMax)

\* z.number().int().min(1).max(150) on the value of parseInt
IdadeIssues(n) ==
  IF n = NaN THEN <<MsgIdadeType>>
  ELSE When(n[1] < IdadeMin, MsgIdadeMin) \o When(n[1] > IdadeMax, MsgIdadeMax)

\* alunoSchema.parse({...formData, idade: parseInt(formData.idade)})
SchemaIssues(fd) ==
  NomeIssues(fd.nome) \o EmailIssues(fd.email)
    \o MatriculaIssues(fd.matricula) \o IdadeIssues(ParseInt(fd.idade))

\* the value parse returns when it does not throw
Validated(fd) ==
  [nome |-> Trim(fd.nome), email |-> Trim(fd.email),
   matricula |-> Trim(fd.matricula), idade |-> ParseInt(fd.idade)[1]]

(***************************************************************************)
(* The store: auth.users, public.profiles, public.alunos.                  *)
(***************************************************************************)
VARIABLES
  authUsers,   \* ids of the rows of auth.users
  usedUids,    \* ids ever given to an identity (an id is never given twice)
  profiles,    \* rows of public.profiles
  alunos,      \* rows of public.alunos
  nextId,      \* the next value of gen_random_uuid() for alunos.id
  now,         \* the store's clock, now()
  resp         \* the store's answer to the last request

storeVars == <<authUsers, usedUids, profiles, alunos, nextId, now, resp>>

UidPool == {"u1", "u2"}

\* column values used by the requests of the model
E1 == <<"a", "@", "a", ".", "a", "a">>
E2 == <<"e", "@", "a", ".", "a", "a">>
M1 == <<"a", "a", "a">>
M2 == <<"e", "e", "e">>
N1 == <<"a", "a">>

\* error messages of the store, as the words the client searches them for
OkMsg == <<>>
ErrDupEmail ==
  <<"duplicate", "key", "value", "violates", "unique", "constraint",
    "alunos", "email", "key">>
ErrDupMatricula ==
  <<"duplicate", "key", "value", "violates", "unique", "constraint",
    "alunos", "matricula", "key">>
ErrCheckIdade ==
  <<"new", "row", "for", "relation", "alunos", "violates", "check",
    "constraint", "alunos", "idade", "check">>
ErrRls ==
  <<"new", "row", "violates", "row-level", "security", "policy", "for",
    "table", "alunos">>
ErrFk ==
  <<"insert", "or", "update", "on", "table", "alunos", "violates",
    "foreign", "key", "constraint", "alunos", "criado", "por", "fkey">>
ErrDupProfileEmail ==
  <<"duplicate", "key", "value", "violates", "unique", "constraint",
    "profiles", "email", "key">>
ErrDupProfilePkey ==
  <<"duplicate", "key", "value", "violates", "unique", "constraint",
    "profiles", "pkey">>
ErrProfileRls ==
  <<"new", "row", "violates", "row-level", "security", "policy", "for",
    "table", "profiles">>
ErrProfileFk ==
  <<"insert", "or", "update", "on", "table", "profiles", "violates",
    "foreign", "key", "constraint", "profiles", "id", "fkey">>
ErrNotNull ==
  <<"null", "value", "in", "column", "email", "violates", "not-null",
    "constraint">>

\* a row with the columns of patch, and those of base that patch leaves out
Merge(base, patch) ==
  [c \in DOMAIN base \cup DOMAIN patch |->
     IF c \in DOMAIN patch THEN patch[c] ELSE base[c]]

\* faulty variant: the select policy lets every row through
PolicySelectAlunoAll(uid, r) == TRUE
\* faulty variant: the update policy lets any signed-in identity through
PolicyUpdateAlunoAnyone(uid, r) == uid # None

\* policies of public.alunos
PolicySelectAluno(uid, r) == uid = r.criado_por
PolicyInsertAluno(uid, r) == uid = r.criado_por
PolicyUpdateAluno(uid, r) == uid = r.criado_por
PolicyDeleteAluno(uid, r) == uid = r.criado_por

\* CHECK (idade > 0 AND idade < 150)
CheckIdade(r) == r.idade > CheckIdadeLow /\ r.idade < CheckIdadeHigh

\* faulty variant: matricula is unique among the rows of one owner only
UniqueMatriculaPerOwner(r, others) ==
  \A o \in others : o.criado_por = r.criado_por => o.matricula # r.matricula

\* email TEXT NOT NULL UNIQUE, matricula TEXT NOT NULL UNIQUE
UniqueEmail(r, others) == \A o \in others : o.email # r.email
UniqueMatricula(r, others) == \A o \in others : o.matricula # r.matricula

\* criado_por UUID NOT NULL REFERENCES public.profiles(id)
FkCriadoPor(r) == \E p \in profiles : p.id = r.criado_por

\* update_updated_at_column(): NEW.updated_at = now()
UpdateUpdatedAtColumn(new) == [new EXCEPT !.updated_at = now]

\* the constraints of alunos on a row written beside the rows others
ConstraintError(r, others) ==
  IF ~CheckIdade(r) THEN ErrCheckIdade
  ELSE IF ~UniqueEmail(r, others) THEN ErrDupEmail
  ELSE IF ~UniqueMatricula(r, others) THEN ErrDupMatricula
  ELSE IF ~FkCriadoPor(r) THEN ErrFk
  ELSE OkMsg

\* INSERT INTO alunos by the identity uid; columns left out take defaults
InsertAluno(uid, payload) ==
  LET row == Merge([id |-> nextId, created_at |-> now, updated_at |-> now],
                   payload)
      err == IF ~PolicyInsertAluno(uid, row) THEN ErrRls
             ELSE ConstraintError(row, alunos)
  IN [err |-> err,
      alunos |-> IF err = OkMsg THEN alunos \cup {row} ELSE alunos,
      nextId |-> IF err = OkMsg THEN nextId + 1 ELSE nextId]

\* UPDATE alunos SET patch WHERE id = id, by the identity uid
UpdateAluno(uid, id, patch) ==
  LET hit == {r \in alunos : r.id = id /\ PolicyUpdateAluno(uid, r)}
  IN IF hit = {} THEN [err |-> OkMsg, alunos |-> alunos]
     ELSE LET old == CHOOSE r \in hit : TRUE
              new == UpdateUpdatedAtColumn(Merge(old, patch))
              err == IF ~PolicyUpdateAluno(uid, new) THEN ErrRls
                     ELSE ConstraintError(new, alunos \ {old})
          IN [err |-> err,
              alunos |-> IF err = OkMsg THEN (alunos \ {old}) \cup {new}
                         ELSE alunos]

\* DELETE FROM alunos WHERE id = id, by the identity uid
DeleteAluno(uid, id) ==
  [err |-> OkMsg,
   alunos |-> {r \in alunos : ~(r.id = id /\ PolicyDeleteAluno(uid, r))}]

\* the sequences that list the rows of S by created_at, latest first
OrderedDesc(S) ==
  {q \in [1..Cardinality(S) -> S] :
     /\ \A i, j \in 1..Cardinality(S) : i # j => q[i] # q[j]
     /\ \A i, j \in 1..Cardinality(S) :
          i < j => q[i].created_at >= q[j].created_at}

\* SELECT * FROM alunos ORDER BY created_at DESC, by the identity uid
SelectAlunos(uid) == OrderedDesc({r \in alunos : PolicySelectAluno(uid, r)})

(***************************************************************************)
(* public.profiles: policies, the signup trigger, the requests.            *)
(***************************************************************************)
PolicyUpdateProfile(uid, p) == uid = p.id
PolicyInsertProfile(uid, p) == uid = p.id
\* no policy FOR DELETE exists on profiles: row-level security denies it
PolicyDeleteProfile(uid, p) == FALSE

ProfileConstraintError(p, others) ==
  IF \E o \in others : o.id = p.id THEN ErrDupProfilePkey
  ELSE IF \E o \in others : o.email = p.email THEN ErrDupProfileEmail
  ELSE IF p.id \notin authUsers THEN ErrProfileFk
  ELSE OkMsg

\* handle_new_user(): the profile row of the new identity, or the error that
\* aborts the insert into auth.users. email and metaNome are <<>> when NULL
\* or absent, <<value>> otherwise.
HandleNewUser(id, email, metaNome) ==
  LET row == [id |-> id,
              nome |-> IF metaNome = <<>> THEN <<>> ELSE metaNome[1],
              email |-> IF email = <<>> THEN <<>> ELSE email[1],
              created_at |-> now, updated_at |-> now]
      err == IF email = <<>> THEN ErrNotNull
             ELSE IF \E o \in profiles : o.id = id THEN ErrDupProfilePkey
             ELSE IF \E o \in profiles : o.email = row.email
                  THEN ErrDupProfileEmail
             ELSE OkMsg
  IN [err |-> err, row |-> row]

\* faulty variant: the identity is kept when the trigger fails
CreateIdentityNotAtomic(id, email, metaNome) ==
  LET t == HandleNewUser(id, email, metaNome)
  IN [err |-> OkMsg,
      authUsers |-> authUsers \cup {id},
      profiles |-> IF t.err = OkMsg THEN profiles \cup {t.row} ELSE profiles]

\* INSERT INTO auth.users with the AFTER INSERT trigger on_auth_user_created,
\* one transaction: an error of the trigger leaves no identity behind
CreateIdentity(id, email, metaNome) ==
  LET t == HandleNewUser(id, email, metaNome)
  IN [err |-> t.err,
      authUsers |-> IF t.err = OkMsg THEN authUsers \cup {id} ELSE authUsers,
      profiles |-> IF t.err = OkMsg THEN profiles \cup {t.row} ELSE profiles]

UpdateProfile(uid, id, patch) ==
  LET hit == {p \in profiles : p.id = id /\ PolicyUpdateProfile(uid, p)}
  IN IF hit = {} THEN [err |-> OkMsg, profiles |-> profiles]
     ELSE LET old == CHOOSE p \in hit : TRUE
              new == UpdateUpdatedAtColumn(Merge(old, patch))
              err == IF ~PolicyUpdateProfile(uid, new) THEN ErrProfileRls
                     ELSE ProfileConstraintError(new, profiles \ {old})
          IN [err |-> err,
              profiles |-> IF err = OkMsg THEN (profiles \ {old}) \cup {new}
                           ELSE profiles]

InsertProfile(uid, payload) ==
  LET row == Merge([created_at |-> now, updated_at |-> now], payload)
      err == IF ~PolicyInsertProfile(uid, row) THEN ErrProfileRls
             ELSE ProfileConstraintError(row, profiles)
  IN [err |-> err,
      profiles |-> IF err = OkMsg THEN profiles \cup {row} ELSE profiles]

DeleteProfile(uid, id) ==
  [err |-> OkMsg,
   profiles |-> {p \in profiles : ~(p.id = id /\ PolicyDeleteProfile(uid, p))}]

VARIABLES
  session,           \* the identity supabase.auth.getUser() gives, or None
  mounted,           \* Dashboard is on screen
  user,              \* Dashboard's state user
  view,              \* Dashboard's state alunos, the displayed list
  fetches,           \* the select requests of fetchAlunos not yet answered
  formOpen,          \* Dashboard's state formOpen
  formData,          \* AlunoForm's state formData, the texts of the fields
  selectedAluno,     \* Dashboard's state selectedAluno: <<>> or <<row>>
  deleteDialogOpen,  \* Dashboard's state deleteDialogOpen
  alunoToDelete,     \* Dashboard's state alunoToDelete: <<>> or <<id>>
  event              \* what the handler of the last step did

clientVars ==
  <<session, mounted, user, view, fetches, formOpen, formData, selectedAluno,
    deleteDialogOpen, alunoToDelete, event>>

vars == <<storeVars, clientVars>>

EmptyForm == [nome |-> <<>>, email |-> <<>>, matricula |-> <<>>, idade |-> <<>>]

NoEvent ==
  [handler |-> "none", edit |-> FALSE, authed |-> None, request |-> "none",
   err |-> OkMsg, toasts |-> <<>>, success |-> FALSE]

\* a step of the store that is none of this tab's handlers
ClientIdle ==
  /\ event' = NoEvent
  /\ UNCHANGED <<session, mounted, user, view, fetches, formOpen, formData,
                 selectedAluno, deleteDialogOpen, alunoToDelete>>

(***************************************************************************)
(* Requests to the store, by any client holding the identity uid           *)
(* (None: no identity).                                                    *)
(***************************************************************************)
\* target: the id the request names (0: none); owner: the criado_por an insert
\* declares; rows: the rows a select returns
Answer(op, uid, err, target, owner, rows) ==
  [op |-> op, uid |-> uid, err |-> err, target |-> target, owner |-> owner,
   rows |-> rows]

Requesters == usedUids \cup {None}

\* the clock advances
Tick ==
  /\ now < MaxTime
  /\ now' = now + 1
  /\ UNCHANGED <<authUsers, usedUids, profiles, alunos, nextId, resp>>
  /\ ClientIdle

SignUp(id, email, metaNome) ==
  /\ id \in UidPool \ usedUids
  /\ LET t == CreateIdentity(id, email, metaNome)
     IN /\ authUsers' = t.authUsers
        /\ profiles' = t.profiles
        /\ usedUids' = IF t.err = OkMsg THEN usedUids \cup {id} ELSE usedUids
        /\ resp' = Answer("signup", id, t.err, 0, None, <<>>)
  /\ UNCHANGED <<alunos, nextId, now>>
  /\ ClientIdle

\* DELETE FROM auth.users: ON DELETE CASCADE to profiles, and on to alunos
DeleteIdentity(id) ==
  /\ id \in authUsers
  /\ authUsers' = authUsers \ {id}
  /\ profiles' = {p \in profiles : p.id # id}
  /\ alunos' = {r \in alunos : r.criado_por # id}
  /\ resp' = Answer("delete_identity", id, OkMsg, 0, None, <<>>)
  /\ UNCHANGED <<usedUids, nextId, now>>
  /\ ClientIdle

ApiSelect(uid) ==
  /\ uid \in Requesters
  /\ \E q \in SelectAlunos(uid) : resp' = Answer("select", uid, OkMsg, 0, None, q)
  /\ UNCHANGED <<authUsers, usedUids, profiles, alunos, nextId, now>>
  /\ ClientIdle

ApiInsert(uid, payload) ==
  /\ uid \in Requesters
  /\ LET t == InsertAluno(uid, payload)
     IN /\ t.err = OkMsg => nextId <= MaxRows
        /\ alunos' = t.alunos
        /\ nextId' = t.nextId
        /\ resp' = Answer("insert", uid, t.err, 0, payload.criado_por, <<>>)
  /\ UNCHANGED <<authUsers, usedUids, profiles, now>>
  /\ ClientIdle

ApiUpdate(uid, id, patch) ==
  /\ uid \in Requesters
  /\ id \in 1..(nextId - 1)
  /\ LET t == UpdateAluno(uid, id, patch)
     IN /\ alunos' = t.alunos
        /\ resp' = Answer("update", uid, t.err, id, None, <<>>)
  /\ UNCHANGED <<authUsers, usedUids, profiles, nextId, now>>
  /\ ClientIdle

ApiDelete(uid, id) ==
  /\ uid \in Requesters
  /\ id \in 1..(nextId - 1)
  /\ alunos' = DeleteAluno(uid, id).alunos
  /\ resp' = Answer("delete", uid, OkMsg, id, None, <<>>)
  /\ UNCHANGED <<authUsers, usedUids, profiles, nextId, now>>
  /\ ClientIdle

ApiUpdateProfile(uid, id, patch) ==
  /\ uid \in Requesters
  /\ id \in usedUids
  /\ LET t == UpdateProfile(uid, id, patch)
     IN /\ profiles' = t.profiles
        /\ resp' = Answer("update_profile", uid, t.err, 0, None, <<>>)
  /\ UNCHANGED <<authUsers, usedUids, alunos, nextId, now>>
  /\ ClientIdle

ApiInsertProfile(uid, payload) ==
  /\ uid \in Requesters
  /\ LET t == InsertProfile(uid, payload)
     IN /\ profiles' = t.profiles
        /\ resp' = Answer("insert_profile", uid, t.err, 0, None, <<>>)
  /\ UNCHANGED <<authUsers, usedUids, alunos, nextId, now>>
  /\ ClientIdle

ApiDeleteProfile(uid, id) ==
  /\ uid \in Requesters
  /\ id \in usedUids
  /\ profiles' = DeleteProfile(uid, id).profiles
  /\ resp' = Answer("delete_profile", uid, OkMsg, 0, None, <<>>)
  /\ UNCHANGED <<authUsers, usedUids, alunos, nextId, now>>
  /\ ClientIdle

StoreInit ==
  /\ authUsers = {}
  /\ usedUids = {}
  /\ profiles = {}
  /\ alunos = {}
  /\ nextId = 1
  /\ now = 0
  /\ resp = Answer("none", None, OkMsg, 0, None, <<>>)

(***************************************************************************)
(* The client: one browser tab showing Dashboard.tsx with AlunoForm.tsx.   *)
(***************************************************************************)

ToastNotAuthenticated == "Usuario nao autenticado"
ToastEmailTaken == "Este email ja esta cadastrado"
ToastMatriculaTaken == "Esta matricula ja esta cadastrada"
ToastUpdateFailed == "Erro ao atualizar aluno"
ToastCreateFailed == "Erro ao criar aluno"
ToastUpdated == "Aluno atualizado com sucesso!"
ToastCreated == "Aluno criado com sucesso!"
ToastDeleteFailed == "Erro ao excluir aluno"
ToastDeleted == "Aluno excluido com sucesso!"
ToastLoadFailed == "Erro ao carregar alunos"

\* the request did not reach the store
ErrNetwork == <<"TypeError:", "Failed", "to", "fetch">>

\* error.message.includes(pat), on the words of the message
Includes(msg, pat) ==
  \E i \in 1..(Len(msg) - Len(pat) + 1) :
     SubSeq(msg, i, i + Len(pat) - 1) = pat

\* faulty variant: only duplicate keys are reported
ErrorToastsDuplicatesOnly(err, generic) ==
  IF Includes(err, <<"email">>) THEN <<ToastEmailTaken>>
  ELSE IF Includes(err, <<"matricula">>) THEN <<ToastMatriculaTaken>>
  ELSE <<>>

\* the toasts of the error branch of handleSubmit
ErrorToasts(err, generic) ==
  IF Includes(err, <<"duplicate", "key">>)
  THEN IF Includes(err, <<"email">>) THEN <<ToastEmailTaken>>
       ELSE IF Includes(err, <<"matricula">>) THEN <<ToastMatriculaTaken>>
       ELSE <<>>
  ELSE <<generic>>

\* a select request of fetchAlunos, sent with the credentials of the session
FetchRequest == [uid |-> session, phase |-> "sent", data |-> <<>>]

\* the store's part of handleSubmit once validation and getUser passed
SubmitRequest(v, net) ==
  IF ~net THEN [err |-> ErrNetwork, alunos |-> alunos, nextId |-> nextId]
  ELSE IF selectedAluno # <<>>
  THEN LET t == UpdateAluno(session, selectedAluno[1].id, v)
       IN [err |-> t.err, alunos |-> t.alunos, nextId |-> nextId]
  ELSE InsertAluno(session, Merge(v, [criado_por |-> session]))

DigitChar(d) == CHOOSE c \in Digits : DigitVal(c) = d

\* Number.prototype.toString of an integer that is not negative
RECURSIVE IntToText(_)
IntToText(n) ==
  IF n < 10 THEN <<DigitChar(n)>>
  ELSE IntToText(n \div 10) \o <<DigitChar(n % 10)>>

\* the effect of AlunoForm on [aluno, open]: the fields of the row being
\* edited, or empty fields
FormEffect(aluno) ==
  IF aluno = <<>> THEN EmptyForm
  ELSE [nome |-> aluno[1].nome, email |-> aluno[1].email,
        matricula |-> aluno[1].matricula,
        idade |-> IntToText(aluno[1].idade)]

\* the user types: the onChange handlers of the four inputs
SetFormData(fd) ==
  /\ mounted /\ formOpen
  /\ formData # fd
  /\ formData' = fd
  /\ event' = NoEvent
  /\ UNCHANGED <<storeVars, session, mounted, user, view, fetches, formOpen,
                 selectedAluno, deleteDialogOpen, alunoToDelete>>

\* handleSubmit; net: the request reaches the store
HandleSubmit(net) ==
  /\ mounted /\ formOpen
  /\ LET issues == SchemaIssues(formData)
         edit == selectedAluno # <<>>
         ev == [NoEvent EXCEPT !.handler = "submit", !.edit = edit,
                               !.authed = session]
     IN IF issues # <<>>
        THEN /\ event' = [ev EXCEPT !.toasts = <<issues[1]>>]
             /\ UNCHANGED <<alunos, nextId, fetches, formOpen, formData,
                            selectedAluno>>
        ELSE IF session = None
        THEN /\ event' = [ev EXCEPT !.toasts = <<ToastNotAuthenticated>>]
             /\ UNCHANGED <<alunos, nextId, fetches, formOpen, formData,
                            selectedAluno>>
        ELSE LET t == SubmitRequest(Validated(formData), net)
                 req == IF edit THEN "update" ELSE "insert"
             IN IF t.err # OkMsg
                THEN /\ event' =
                          [ev EXCEPT !.request = req, !.err = t.err,
                             !.toasts = ErrorToasts(t.err,
                                IF edit THEN ToastUpdateFailed
                                ELSE ToastCreateFailed)]
                     /\ UNCHANGED <<alunos, nextId, fetches, formOpen,
                                    formData, selectedAluno>>
                ELSE /\ edit \/ nextId <= MaxRows
                     /\ Len(fetches) < MaxFetches
                     /\ alunos' = t.alunos
                     /\ nextId' = t.nextId
                     /\ event' =
                          [ev EXCEPT !.request = req, !.success = TRUE,
                             !.toasts = <<IF edit THEN ToastUpdated
                                          ELSE ToastCreated>>]
                     \* onSuccess(): fetchAlunos(); setSelectedAluno(null)
                     /\ fetches' = Append(fetches, FetchRequest)
                     /\ selectedAluno' = <<>>
                     /\ formOpen' = FALSE
                     /\ formData' = EmptyForm
  /\ UNCHANGED <<authUsers, usedUids, profiles, now, resp, session, mounted,
                 user, view, deleteDialogOpen, alunoToDelete>>

\* handleDelete; net: the request reaches the store
HandleDelete(net) ==
  /\ mounted /\ deleteDialogOpen
  /\ LET ev == [NoEvent EXCEPT !.handler = "delete", !.authed = session]
     IN IF alunoToDelete = <<>>
        THEN /\ event' = ev
             /\ UNCHANGED <<alunos, fetches, deleteDialogOpen, alunoToDelete>>
        ELSE IF ~net
        THEN /\ event' = [ev EXCEPT !.request = "delete", !.err = ErrNetwork,
                                    !.toasts = <<ToastDeleteFailed>>]
             /\ UNCHANGED <<alunos, fetches, deleteDialogOpen, alunoToDelete>>
        ELSE /\ Len(fetches) < MaxFetches
             /\ alunos' = DeleteAluno(session, alunoToDelete[1]).alunos
             /\ event' = [ev EXCEPT !.request = "delete", !.success = TRUE,
                                    !.toasts = <<ToastDeleted>>]
             /\ fetches' = Append(fetches, FetchRequest)
             /\ deleteDialogOpen' = FALSE
             /\ alunoToDelete' = <<>>
  /\ UNCHANGED <<authUsers, usedUids, profiles, nextId, now, resp, session,
                 mounted, user, view, formOpen, formData, selectedAluno>>

\* the store answers a select of fetchAlunos
FetchServe(i) ==
  /\ i \in 1..Len(fetches)
  /\ fetches[i].phase = "sent"
  /\ \E q \in SelectAlunos(fetches[i].uid) :
       fetches' = [fetches EXCEPT ![i] = [@ EXCEPT !.phase = "served",
                                                   !.data = q]]
  /\ event' = NoEvent
  /\ UNCHANGED <<storeVars, session, mounted, user, view, formOpen, formData,
                 selectedAluno, deleteDialogOpen, alunoToDelete>>

\* the answer reaches fetchAlunos: setAlunos(data || [])
FetchReturn(i) ==
  /\ i \in 1..Len(fetches)
  /\ fetches[i].phase = "served"
  /\ view' = fetches[i].data
  /\ fetches' = [j \in 1..(Len(fetches) - 1) |->
                   IF j < i THEN fetches[j] ELSE fetches[j + 1]]
  /\ event' = NoEvent
  /\ UNCHANGED <<storeVars, session, mounted, user, formOpen, formData,
                 selectedAluno, deleteDialogOpen, alunoToDelete>>

\* the select of fetchAlunos fails: the list is left as it is
FetchFail(i) ==
  /\ i \in 1..Len(fetches)
  /\ fetches[i].phase = "sent"
  /\ fetches' = [j \in 1..(Len(fetches) - 1) |->
                   IF j < i THEN fetches[j] ELSE fetches[j + 1]]
  /\ event' = [NoEvent EXCEPT !.handler = "fetch", !.err = ErrNetwork,
                              !.toasts = <<ToastLoadFailed>>]
  /\ UNCHANGED <<storeVars, session, mounted, user, view, formOpen, formData,
                 selectedAluno, deleteDialogOpen, alunoToDelete>>

\* onAuthStateChange with a session: setUser(session.user), and the effect
\* on user calls fetchAlunos
AuthStateChange ==
  /\ mounted
  /\ session # None
  /\ Len(fetches) < MaxFetches
  /\ user' = session
  /\ fetches' = Append(fetches, FetchRequest)
  /\ event' = NoEvent
  /\ UNCHANGED <<storeVars, session, mounted, view, formOpen, formData,
                 selectedAluno, deleteDialogOpen, alunoToDelete>>

\* the sign-in page: an identity signs in and Dashboard mounts; checkAuth
\* sets user, and the effect on user calls fetchAlunos
SignIn(id) ==
  /\ ~mounted
  /\ id \in authUsers
  /\ session' = id
  /\ mounted' = TRUE
  /\ user' = id
  /\ view' = <<>>
  /\ fetches' = <<[uid |-> id, phase |-> "sent", data |-> <<>>]>>
  /\ formOpen' = FALSE
  /\ formData' = EmptyForm
  /\ selectedAluno' = <<>>
  /\ deleteDialogOpen' = FALSE
  /\ alunoToDelete' = <<>>
  /\ event' = NoEvent
  /\ UNCHANGED storeVars

\* the session ends outside this tab (expiry, revocation, sign-out elsewhere)
SessionEnds ==
  /\ session # None
  /\ session' = None
  /\ event' = NoEvent
  /\ UNCHANGED <<storeVars, mounted, user, view, fetches, formOpen, formData,
                 selectedAluno, deleteDialogOpen, alunoToDelete>>

\* onAuthStateChange with no session, or handleLogout: navigate("/")
LeaveDashboard ==
  /\ mounted
  /\ session' = None
  /\ mounted' = FALSE
  /\ user' = None
  /\ view' = <<>>
  /\ fetches' = <<>>
  /\ formOpen' = FALSE
  /\ formData' = EmptyForm
  /\ selectedAluno' = <<>>
  /\ deleteDialogOpen' = FALSE
  /\ alunoToDelete' = <<>>
  /\ event' = NoEvent
  /\ UNCHANGED storeVars

\* handleNewAluno
HandleNewAluno ==
  /\ mounted /\ ~formOpen /\ ~deleteDialogOpen
  /\ selectedAluno' = <<>>
  /\ formOpen' = TRUE
  /\ formData' = FormEffect(<<>>)
  /\ event' = NoEvent
  /\ UNCHANGED <<storeVars, session, mounted, user, view, fetches,
                 deleteDialogOpen, alunoToDelete>>

\* handleEdit(aluno), for a row of the displayed list
HandleEdit(i) ==
  /\ mounted /\ ~formOpen /\ ~deleteDialogOpen
  /\ i \in 1..Len(view)
  /\ selectedAluno' = <<view[i]>>
  /\ formOpen' = TRUE
  /\ formData' = FormEffect(<<view[i]>>)
  /\ event' = NoEvent
  /\ UNCHANGED <<storeVars, session, mounted, user, view, fetches,
                 deleteDialogOpen, alunoToDelete>>

\* handleDeleteClick(id), for a row of the displayed list
HandleDeleteClick(i) ==
  /\ mounted /\ ~formOpen /\ ~deleteDialogOpen
  /\ i \in 1..Len(view)
  /\ alunoToDelete' = <<view[i].id>>
  /\ deleteDialogOpen' = TRUE
  /\ event' = NoEvent
  /\ UNCHANGED <<storeVars, session, mounted, user, view, fetches, formOpen,
                 formData, selectedAluno>>

\* the dialogs' onOpenChange(false)
CloseDialog ==
  /\ mounted /\ (formOpen \/ deleteDialogOpen)
  /\ formOpen' = FALSE
  /\ deleteDialogOpen' = FALSE
  /\ formData' = IF formOpen THEN FormEffect(selectedAluno) ELSE formData
  /\ event' = NoEvent
  /\ UNCHANGED <<storeVars, session, mounted, user, view, fetches,
                 selectedAluno, alunoToDelete>>

ClientInit ==
  /\ session = None
  /\ mounted = FALSE
  /\ user = None
  /\ view = <<>>
  /\ fetches = <<>>
  /\ formOpen = FALSE
  /\ formData = EmptyForm
  /\ selectedAluno = <<>>
  /\ deleteDialogOpen = FALSE
  /\ alunoToDelete = <<>>
  /\ event = NoEvent

Init == StoreInit /\ ClientInit

(***************************************************************************)
(* Inputs of the model.                                                    *)
(***************************************************************************)
Form(n, e, m, i) == [nome |-> n, email |-> e, matricula |-> m, idade |-> i]

NomeTexts ==
  {<<"a">>, <<" ", "a", " ">>, <<" ">> \o N1 \o <<" ">>, N1,
   Rep("a", NomeMax + 1), Rep("a", NomeMax + 1) \o <<" ">>}
EmailTexts ==
  {E1, <<"a", "@", "a">>, <<"a", ".", "a", "a">>, <<" ">> \o E1,
   <<"a", "@">> \o Rep("a", EmailMax - 5) \o <<".", "a", "a">>,
   <<"a", "@">> \o Rep("a", EmailMax - 4) \o <<".", "a", "a">>}
MatriculaTexts ==
  {M1, <<"a", "a">>, <<" ", "a", "a", " ">>, Rep("a", MatriculaMax),
   Rep("a", MatriculaMax + 1)}
IdadeTexts ==
  {<<>>, <<"a">>, <<"-", "1">>, <<"0">>, <<"1">>, <<"1", ".", "5">>,
   <<"1", "4", "9">>, <<"1", "5", "0">>, <<"1", "5", "1">>}

\* forms with one field varied, and forms with several fields in error
ValidationForms ==
  {Form(n, E1, M1, <<"1">>) : n \in NomeTexts}
    \cup {Form(N1, e, M1, <<"1">>) : e \in EmailTexts}
    \cup {Form(N1, E1, m, <<"1">>) : m \in MatriculaTexts}
    \cup {Form(N1, E1, M1, i) : i \in IdadeTexts}
    \cup {Form(<<"a">>, <<"a", "@", "a">>, M1, <<"0">>),
          Form(N1, <<"a", "@", "a">>, <<"a", "a">>, <<"1", "5", "1">>),
          Form(N1, E1, <<"a", "a">>, <<>>)}

\* forms that pass validation and differ in the unique columns
CrudForms ==
  {Form(N1, e, m, <<"1">>) : e \in {E1, E2}, m \in {M1, M2}}
    \cup {Form(N1, E1, M1, <<"1", "5", "0">>)}

\* forms that pass validation and differ in both unique columns
ListForms == {Form(N1, E1, M1, <<"1">>), Form(N1, E2, M2, <<"1">>)}

(***************************************************************************)
(* SpecForm: validation in the create/edit form of one browser tab.        *)
(***************************************************************************)
NextForm ==
  \/ SignUp("u1", <<E1>>, <<>>)
  \/ SignIn("u1")
  \/ LeaveDashboard
  \/ HandleNewAluno
  \/ \E i \in 1..MaxRows : HandleEdit(i)
  \/ CloseDialog
  \/ \E fd \in ValidationForms : SetFormData(fd)
  \/ HandleSubmit(TRUE)
  \/ \E i \in 1..MaxFetches : FetchServe(i)
  \/ \E i \in 1..MaxFetches : FetchReturn(i)

SpecForm == Init /\ [][NextForm]_vars

(***************************************************************************)
(* SpecCrud: create and update by two identities sharing one browser tab,  *)
(* with the store's errors.                                                *)
(***************************************************************************)
NextCrud ==
  \/ SignUp("u1", <<E1>>, <<>>)
  \/ SignUp("u2", <<E2>>, <<>>)
  \/ \E id \in UidPool : SignIn(id)
  \/ LeaveDashboard
  \/ HandleNewAluno
  \/ \E i \in 1..MaxRows : HandleEdit(i)
  \/ CloseDialog
  \/ \E fd \in CrudForms : SetFormData(fd)
  \/ \E net \in BOOLEAN : HandleSubmit(net)
  \/ \E i \in 1..MaxFetches : FetchFail(i)
  \/ \E i \in 1..MaxFetches : FetchServe(i)
  \/ \E i \in 1..MaxFetches : FetchReturn(i)

SpecCrud == Init /\ [][NextCrud]_vars

(***************************************************************************)
(* SpecList: the list, its refreshes and the delete dialog, with the       *)
(* clock advancing.                                                        *)
(***************************************************************************)
NextList ==
  \/ Tick
  \/ SignUp("u1", <<E1>>, <<>>)
  \/ SignIn("u1")
  \/ AuthStateChange
  \/ LeaveDashboard
  \/ HandleNewAluno
  \/ \E i \in 1..MaxRows : HandleEdit(i)
  \/ \E i \in 1..MaxRows : HandleDeleteClick(i)
  \/ CloseDialog
  \/ \E fd \in ListForms : SetFormData(fd)
  \/ HandleSubmit(TRUE)
  \/ \E net \in BOOLEAN : HandleDelete(net)
  \/ \E i \in 1..MaxFetches : FetchServe(i)
  \/ \E i \in 1..MaxFetches : FetchReturn(i)

SpecList == Init /\ [][NextList]_vars

(***************************************************************************)
(* SpecAuth: the form and the delete dialog with the session ending at     *)
(* any time.                                                               *)
(***************************************************************************)
NextAuth ==
  \/ SignUp("u1", <<E1>>, <<>>)
  \/ SignIn("u1")
  \/ SessionEnds
  \/ LeaveDashboard
  \/ HandleNewAluno
  \/ \E i \in 1..MaxRows : HandleEdit(i)
  \/ \E i \in 1..MaxRows : HandleDeleteClick(i)
  \/ CloseDialog
  \/ \E fd \in ListForms : SetFormData(fd)
  \/ HandleSubmit(TRUE)
  \/ HandleDelete(TRUE)
  \/ \E i \in 1..MaxFetches : FetchServe(i)
  \/ \E i \in 1..MaxFetches : FetchReturn(i)

SpecAuth == Init /\ [][NextAuth]_vars

(***************************************************************************)
(* SpecAccess: requests on alunos by two identities and by no identity,    *)
(* sent by any client.                                                     *)
(***************************************************************************)
AccessPayloads ==
  {[nome |-> N1, email |-> e, matricula |-> m, idade |-> 1, criado_por |-> o] :
     e \in {E1, E2}, m \in {M1, M2}, o \in UidPool}

AccessPatches ==
  {[email |-> e] : e \in {E1, E2}}
    \cup {[matricula |-> m] : m \in {M1, M2}}
    \cup {[criado_por |-> o] : o \in UidPool}
    \cup {[idade |-> 2]}

NextAccess ==
  \/ SignUp("u1", <<E1>>, <<>>)
  \/ SignUp("u2", <<E2>>, <<>>)
  \/ \E id \in UidPool : DeleteIdentity(id)
  \/ \E uid \in UidPool \cup {None} : ApiSelect(uid)
  \/ \E uid \in UidPool \cup {None}, payload \in AccessPayloads :
       ApiInsert(uid, payload)
  \/ \E uid \in UidPool \cup {None}, id \in 1..MaxRows, patch \in AccessPatches :
       ApiUpdate(uid, id, patch)
  \/ \E uid \in UidPool \cup {None}, id \in 1..MaxRows : ApiDelete(uid, id)

SpecAccess == Init /\ [][NextAccess]_vars

(***************************************************************************)
(* SpecStore: identities, profiles and the timestamps of both tables,      *)
(* with the clock advancing.                                               *)
(***************************************************************************)
Times == 0..MaxTime

StorePayloads ==
  {[nome |-> N1, email |-> E1, matricula |-> M1, idade |-> 1,
    criado_por |-> o] : o \in UidPool}
    \cup {[nome |-> N1, email |-> E1, matricula |-> M1, idade |-> 1,
           criado_por |-> o, updated_at |-> t] : o \in UidPool, t \in Times}

StorePatches ==
  {[idade |-> 2], [idade |-> 3]} \cup {[updated_at |-> t] : t \in Times}

ProfilePatches ==
  {[email |-> e] : e \in {E1, E2}}
    \cup {[id |-> o] : o \in UidPool}
    \cup {[updated_at |-> t] : t \in Times}

ProfilePayloads ==
  {[id |-> o, nome |-> N1, email |-> e] : o \in UidPool, e \in {E1, E2}}

NextStore ==
  \/ Tick
  \/ \E id \in UidPool, e \in {<<>>, <<E1>>, <<E2>>}, n \in {<<>>, <<N1>>} :
       SignUp(id, e, n)
  \/ \E id \in UidPool : DeleteIdentity(id)
  \/ \E uid \in UidPool \cup {None}, id \in UidPool, patch \in ProfilePatches :
       ApiUpdateProfile(uid, id, patch)
  \/ \E uid \in UidPool \cup {None}, payload \in ProfilePayloads :
       ApiInsertProfile(uid, payload)
  \/ \E uid \in UidPool \cup {None}, id \in UidPool : ApiDeleteProfile(uid, id)
  \/ \E uid \in UidPool, payload \in StorePayloads : ApiInsert(uid, payload)
  \/ \E uid \in UidPool, id \in 1..MaxRows, patch \in StorePatches :
       ApiUpdate(uid, id, patch)

SpecStore == Init /\ [][NextStore]_vars

(***************************************************************************)
(* Properties of the store.                                                *)
(***************************************************************************)

\* C1: a select on alunos under the identity A returns only rows whose
\* criado_por is A, whatever rows other identities own.
C1_SelectOnlyOwnRows ==
  resp.op = "select" =>
    \A i \in 1..Len(resp.rows) : resp.rows[i].criado_por = resp.uid

\* a select that returned rows while another identity owns rows too
C1_Witness ==
  /\ resp.op = "select"
  /\ Len(resp.rows) >= 1
  /\ \E r \in alunos : r.criado_por # resp.uid

C2_Step ==
  /\ resp'.op = "insert" /\ resp'.owner # resp'.uid =>
       resp'.err # OkMsg /\ alunos' = alunos
  /\ resp'.op \in {"update", "delete"} =>
       \A r \in alunos : r.criado_por # resp'.uid => r \in alunos'

\* C2: an insert whose criado_por is not the requester is rejected and adds
\* nothing; an update or delete leaves every row owned by another identity
\* as it was.
C2_WritesGuardedByOwnership == [][C2_Step]_vars

\* an update or delete by a signed-in identity aimed at another one's row
C2_Witness ==
  /\ resp.op \in {"update", "delete"}
  /\ resp.uid \in authUsers
  /\ \E r \in alunos : r.id = resp.target /\ r.criado_por # resp.uid

C3_Unique ==
  \A r1, r2 \in alunos :
    r1 # r2 => r1.email # r2.email /\ r1.matricula # r2.matricula

C3_Step ==
  resp'.op \in {"insert", "update"} /\ resp'.err # OkMsg => alunos' = alunos

\* C3: two distinct rows of alunos never share an email or a matricula,
\* whoever owns them; an insert or update the store rejects changes no row.
C3_EmailAndMatriculaUnique == []C3_Unique /\ [][C3_Step]_vars

\* a matricula already held by a row of another identity was refused
C3_Witness ==
  /\ resp.op \in {"insert", "update"}
  /\ resp.err = ErrDupMatricula
  /\ resp.uid \in authUsers
  /\ alunos # {}
  /\ \A r \in alunos : r.criado_por # resp.uid

\* C5: every identity has exactly one profile, with its id, and every
\* profile belongs to an identity; a signup whose trigger fails creates
\* no identity.
C5_OneProfilePerIdentity ==
  /\ \A u \in authUsers : Cardinality({p \in profiles : p.id = u}) = 1
  /\ \A p \in profiles : p.id \in authUsers
  /\ resp.op = "signup" /\ resp.err # OkMsg => resp.uid \notin authUsers

\* a signup refused for an email that an owner gave to their own profile
C5_Witness ==
  /\ resp.op = "signup"
  /\ resp.err = ErrDupProfileEmail
  /\ \E p \in profiles : p.updated_at > p.created_at

C6_Step ==
  /\ resp'.op = "update" =>
       \A r \in alunos, n \in alunos' :
         r.id = n.id /\ r # n =>
           n.updated_at = now' /\ n.updated_at >= r.updated_at
  /\ resp'.op = "update_profile" =>
       \A r \in profiles, n \in profiles' :
         r.id = n.id /\ r # n =>
           n.updated_at = now' /\ n.updated_at >= r.updated_at

\* C6: an update of a profile or student row sets its updated_at to the
\* current time, whatever the payload says, and the new value is not
\* before the previous one.
C6_UpdatedAtAdvances == [][C6_Step]_vars

(***************************************************************************)
(* Properties of the form and the list.                                    *)
(***************************************************************************)
RuleNome(fd) == Len(Trim(fd.nome)) \in NomeMin..NomeMax
RuleEmail(fd) == IsEmail(Trim(fd.email)) /\ Len(Trim(fd.email)) <= EmailMax
RuleMatricula(fd) == Len(Trim(fd.matricula)) \in MatriculaMin..MatriculaMax
\* the text writes an integer: an optional sign, then digits and nothing else
IsIntegerText(text) ==
  LET body == IF text # <<>> /\ text[1] \in {"-", "+"} THEN Tail(text)
              ELSE text
  IN body # <<>> /\ \A i \in 1..Len(body) : body[i] \in Digits

\* the message of the first rule the form breaks, fields in the order
\* nome, email, matricula, idade ("" when it breaks none)
FirstViolation(fd) ==
  IF Len(Trim(fd.nome)) < NomeMin THEN MsgNomeMin
  ELSE IF Len(Trim(fd.nome)) > NomeMax THEN MsgNomeMax
  ELSE IF ~IsEmail(Trim(fd.email)) THEN MsgEmail
  ELSE IF Len(Trim(fd.email)) > EmailMax THEN MsgEmailMax
  ELSE IF Len(Trim(fd.matricula)) < MatriculaMin THEN MsgMatriculaMin
  ELSE IF Len(Trim(fd.matricula)) > MatriculaMax THEN MsgMatriculaMax
  ELSE IF ~IsIntegerText(fd.idade) THEN MsgIdadeType
  ELSE IF ParseInt(fd.idade)[1] < IdadeMin THEN MsgIdadeMin
  ELSE IF ParseInt(fd.idade)[1] > IdadeMax THEN MsgIdadeMax
  ELSE ""

C4_Step ==
  LET fd == formData
  IN /\ event'.handler = "submit" /\ ~event'.edit
     /\ event'.authed # None /\ event'.err # ErrNetwork
     /\ RuleNome(fd) /\ RuleEmail(fd) /\ RuleMatricula(fd)
     /\ \A r \in alunos :
          r.email # Trim(fd.email) /\ r.matricula # Trim(fd.matricula)
     => (event'.success <=>
           /\ ParseInt(fd.idade) # NaN
           /\ ParseInt(fd.idade)[1] \in IdadeMin..IdadeMax)

\* C4: a create by a signed-in owner, with the other fields valid and no
\* email or matricula already taken, succeeds exactly when the age the
\* form submits (the number read from the idade field) is an integer from
\* 1 to 150: the form and the store accept the same ages.
C4_CreateSucceedsIffAgeInRange == [][C4_Step]_vars

\* C7: when no identity is authenticated, handleSubmit and handleDelete
\* send no insert, update or delete to the store.
C7_NoRequestWhenUnauthenticated ==
  event.handler \in {"submit", "delete"} /\ event.authed = None =>
    event.request = "none"

C8_Expected(ev) ==
  IF ev.err = ErrDupEmail THEN ToastEmailTaken
  ELSE IF ev.err = ErrDupMatricula THEN ToastMatriculaTaken
  ELSE IF ev.edit THEN ToastUpdateFailed
  ELSE ToastCreateFailed

C8_Step ==
  event'.handler = "submit" /\ event'.err # OkMsg =>
    /\ event'.toasts = <<C8_Expected(event')>>
    /\ ~event'.success
    /\ UNCHANGED <<alunos, fetches, formOpen, formData, selectedAluno>>

\* C8: a store error on create or update shows exactly one message: the
\* email one for a duplicate email, the matricula one for a duplicate
\* matricula, the generic one otherwise; the list is not refreshed and the
\* dialog stays open.
C8_StoreErrorShowsOneMessage == [][C8_Step]_vars

\* an update refused for a matricula that another row holds
C8_Witness ==
  /\ event.handler = "submit"
  /\ event.edit
  /\ event.err = ErrDupMatricula
  /\ event.toasts = <<ToastMatriculaTaken>>

C9_Step ==
  event'.handler = "submit" /\ FirstViolation(formData) # "" =>
    /\ event'.request = "none"
    /\ event'.toasts = <<FirstViolation(formData)>>
    /\ UNCHANGED <<alunos, nextId, fetches>>

C10_ListMatchesStore ==
  mounted /\ fetches = <<>> /\ session # None /\ user = session =>
    view \in SelectAlunos(user)

=============================================================================
